---------------------------- MODULE Spec2Model ----------------------------
(***************************************************************************)
(* A model of the diff command of dolt (go/cmd/dolt/commands/diff.go) and  *)
(* of the row helpers it relies on (go/libraries/doltcore/row/row.go).     *)
(*                                                                         *)
(* The module holds one state machine per part of the program:             *)
(*   SpecSummary  diffSummary: producer goroutine, consumer loop,          *)
(*                formatSummary                                            *)
(*   SpecRoots    diffRoots and diffSchemas: the per-table phases          *)
(*   SpecPipe     diffRows: buildPipeline, header injection, the pipeline  *)
(*   SpecDiffer   the asynchronous differ started by diffRows              *)
(*   SpecArgs     parseDiffArgs and getRoots                               *)
(*   SpecRowEq    row.AreEqual                                             *)
(*   SpecRowValid row.IsValid                                              *)
(*   SpecSch      dumbDownSchema                                           *)
(*   SpecSd       tabularSchemaDiff                                        *)
(* Each part has its own variables; a part that is not running rests in    *)
(* its idle state.                                                         *)
(***************************************************************************)
EXTENDS Integers, Sequences, FiniteSets, TLC

(***************************************************************************)
(* Bounds of the model.                                                    *)
(***************************************************************************)
\* keys of the row maps are 1..MaxKey
MaxKey == 2
\* values of the row maps are 0..MaxVal; the binary digits of a value are its cells
MaxVal == 2
\* diffSummary is called with colLen in 1..MaxColLen
MaxColLen == 2

Keys == 1..MaxKey
Values == 0..MaxVal

\* a types.Map: a finite map from keys to values, iterated in key order
Maps == UNION {[D -> Values] : D \in SUBSET Keys}

Max(a, b) == IF a >= b THEN a ELSE b
Min(a, b) == IF a <= b THEN a ELSE b

RECURSIVE SeqSum(_, _)
\* the sum of field f over the records of sequence s
SeqSum(s, f) == IF s = <<>> THEN 0 ELSE s[1][f] + SeqSum(Tail(s), f)

VARIABLES
    \* ---- diffSummary ----
    from,       \* the old row map
    to,         \* the new row map
    colLen,     \* number of columns of the old schema
    sumPc,      \* the producer goroutine: idle, run, sending, ret, set, closed
    sumKey,     \* diff.Summary: the next key to report
    sumErr,     \* diff.Summary returned an error
    ch,         \* the unbuffered channel: the report a blocked sender offers
    chClosed,   \* close(ch) has run
    closeCount, \* how many times the channel was closed
    ae,         \* atomicerr: an error is set
    conPc,      \* the consumer: idle, recv, body, after, done
    p,          \* the report the loop body holds
    acc,        \* the accumulator
    count,      \* reports accumulated
    sentLog,    \* every report handed over on the channel, in order
    sumRet,     \* what diffSummary returned: none, nil, err
    fmtOut,     \* what formatSummary computed
    \* ---- diffRoots ----
    rParts,     \* dArgs.diffParts
    rOutput,    \* dArgs.diffOutput
    rTableSet,  \* dArgs.tableSet: the tables named on the command line
    rDeltas,    \* tableDeltas: one kind (add, drop, mod) per table
    rIdx,       \* the table delta the loop is at
    rPc,        \* idle, start, head, summary, schema, data, check, done, panic
    verr,       \* the named result verr
    rRet,       \* what diffRoots returned
    rLog,       \* the phases run so far: table, phase, whether it failed
    \* ---- diffRows and its pipeline ----
    dLimit,     \* dArgs.limit
    dWhere,     \* dArgs.where holds a clause
    dOutput,    \* dArgs.diffOutput
    schemasEqual,   \* the old and new tag->name maps are equal
    pPc,        \* diffRows: idle, build, inject, start, running, waited, done
    stages,     \* the named transforms of the pipeline, in order
    queues,     \* queues[i]: the input of stage i; the last one: of the sink
    injected,   \* injected[i]: the rows injected at stage i
    numHeaderRows,  \* the number of header rows the sink was told
    srcLeft,    \* events the source still holds, Endless for a source without end
    noMore,     \* the source was asked to stop
    stopped,    \* the pipeline was stopped by an error
    selCount,   \* SelectTransform.count
    sinkLog,    \* the rows the sink received, in order
    badRowVErr, \* the error recorded by the bad-row callback
    waitErr,    \* p.Wait() returned an error
    rowsRet,    \* what diffRows returned: none, nil, err
    inFlightAtFail, \* sink rows in flight when the first transform failed, -1 before
    sinkAfterFail,  \* rows the sink received after the first failure
    qPaths,     \* qPaths[i][k]: the stages the k-th row of queues[i] has passed
    sinkPaths,  \* the stages each row of sinkLog has passed, in order
    \* ---- the asynchronous differ ----
    fromRows,   \* diffRows: the old row map
    toRows,     \* diffRows: the new row map
    adFrom,     \* the map the differ walks as the old one
    adTo,       \* the map the differ walks as the new one
    adPc,       \* the walk: idle, new, walk, done, failed, stopped
    adI,        \* cursor on the sorted keys of adFrom
    adJ,        \* cursor on the sorted keys of adTo
    adChan,     \* the bounded channel of diff events
    adClosed,   \* the channel is closed
    adErr,      \* the walk was aborted by an error
    recvLog,    \* the events the consumer has pulled, in order
    srcPc,      \* the consumer: idle, pull, end, error, closed
    \* ---- parseDiffArgs ----
    apr,        \* the parsed command line: flags, parameters, arguments
    headFails,  \* dEnv.HeadRoot returns an error
    workFails,  \* dEnv.WorkingRoot returns an error
    knownTables,    \* the tables that exist in one of the two roots
    getTableFails,  \* GetTable returns an error
    argsPc,     \* idle, call, done, failed, diffRoots
    roots,      \* what getRoots returned
    dArgs,      \* what parseDiffArgs returned
    \* ---- rows ----
    rowA,       \* the first row (the row of IsValid)
    rowB,       \* the second row
    rowSch,     \* the schema: the constraints of each column, by tag
    rowPc,      \* idle, callAreEqual, areEqualDone, callIsValid, isValidDone
    rowRet,     \* what AreEqual or IsValid returned
    \* ---- dumbDownSchema ----
    schIn,      \* the schema passed in
    schAtCall,  \* its value at the call
    schOut,     \* the schema returned
    schPc,      \* idle, call, done
    \* ---- tabularSchemaDiff ----
    sdOld,      \* the old schema: its columns by tag
    sdNew,      \* the new schema
    sdPc,       \* idle, call, done
    oldPks,     \* the old primary-key list
    newPks,     \* the new primary-key list
    pkLineChanged   \* oldPKStr != newPKStr

sumVars == <<from, to, colLen, sumPc, sumKey, sumErr, ch, chClosed, closeCount,
             ae, conPc, p, acc, count, sentLog, sumRet, fmtOut>>

rootVars == <<rParts, rOutput, rTableSet, rDeltas, rIdx, rPc, verr, rRet, rLog>>

pipeVars == <<dLimit, dWhere, dOutput, schemasEqual, pPc, stages, queues, injected,
              numHeaderRows, srcLeft, noMore, stopped, selCount, sinkLog,
              badRowVErr, waitErr, rowsRet, inFlightAtFail, sinkAfterFail,
              qPaths, sinkPaths>>

adVars == <<fromRows, toRows, adFrom, adTo, adPc, adI, adJ, adChan, adClosed,
            adErr, recvLog, srcPc>>

argsVars == <<apr, headFails, workFails, knownTables, getTableFails, argsPc,
              roots, dArgs>>

rowVars == <<rowA, rowB, rowSch, rowPc, rowRet>>

schVars == <<schIn, schAtCall, schOut, schPc>>

sdVars == <<sdOld, sdNew, sdPc, oldPks, newPks, pkLineChanged>>

vars == <<sumVars, rootVars, pipeVars, adVars, argsVars, rowVars, schVars, sdVars>>

\* what the actions of one part leave alone
notSumVars == <<rootVars, pipeVars, adVars, argsVars, rowVars, schVars, sdVars>>
notRootVars == <<sumVars, pipeVars, adVars, argsVars, rowVars, schVars, sdVars>>
notPipeVars == <<sumVars, rootVars, adVars, argsVars, rowVars, schVars, sdVars>>
notAdVars == <<sumVars, rootVars, pipeVars, argsVars, rowVars, schVars, sdVars>>
notArgsVars == <<sumVars, rootVars, pipeVars, adVars, rowVars, schVars, sdVars>>
notRowVars == <<sumVars, rootVars, pipeVars, adVars, argsVars, schVars, sdVars>>
notSdVars == <<sumVars, rootVars, pipeVars, adVars, argsVars, rowVars, schVars>>
notSchVars == <<sumVars, rootVars, pipeVars, adVars, argsVars, rowVars, sdVars>>

(***************************************************************************)
(* diff.DiffSummaryProgress                                                *)
(***************************************************************************)
ZeroProgress ==
    [Adds |-> 0, Removes |-> 0, Changes |-> 0, CellChanges |-> 0,
     NewSize |-> 0, OldSize |-> 0]

NoReport == [Adds |-> -1, Removes |-> -1, Changes |-> -1, CellChanges |-> -1,
             NewSize |-> -1, OldSize |-> -1]

RECURSIVE CellDiff(_, _)
\* the number of cells (binary digits) in which two values differ
CellDiff(v1, v2) ==
    IF v1 = 0 /\ v2 = 0 THEN 0
    ELSE (IF v1 % 2 # v2 % 2 THEN 1 ELSE 0) + CellDiff(v1 \div 2, v2 \div 2)

\* the partial report of the summary aggregator for key k
ReportFor(f, t, k) ==
    IF k \in DOMAIN f /\ k \in DOMAIN t THEN
        IF f[k] = t[k]
        THEN [ZeroProgress EXCEPT !.OldSize = 1, !.NewSize = 1]
        ELSE [ZeroProgress EXCEPT !.Changes = 1, !.OldSize = 1, !.NewSize = 1,
                                  !.CellChanges = CellDiff(f[k], t[k])]
    ELSE IF k \in DOMAIN f
        THEN [ZeroProgress EXCEPT !.Removes = 1, !.OldSize = 1]
        ELSE [ZeroProgress EXCEPT !.Adds = 1, !.NewSize = 1]

\* the smallest key >= k held by either map, MaxKey + 1 when there is none
NextKey(f, t, k) ==
    LET rest == {j \in (DOMAIN f \cup DOMAIN t) : j >= k}
    IN IF rest = {} THEN MaxKey + 1
       ELSE CHOOSE j \in rest : \A i \in rest : j <= i

(***************************************************************************)
(* formatSummary                                                           *)
(***************************************************************************)
\* a float64 quotient num/den, kept as the pair: den = 0 is +Inf (num > 0)
\* or NaN (num = 0)
FDiv(num, den) == [num |-> num, den |-> den]
IsNaN(x) == x.den = 0 /\ x.num = 0
IsInf(x) == x.den = 0 /\ x.num # 0
IsZeroPercent(x) == x.den # 0 /\ x.num = 0

safePercent(num, dom) ==
    IF num = 0 THEN FDiv(0, 1) ELSE FDiv(100 * num, dom)

\* uint64 subtraction; a negative result stands for the wrapped value 2^64 + x
USub(a, b) == a - b

rowsUnmodifiedOfAdds(a) == USub(USub(a.OldSize, a.Changes), a.Adds)

rowsUnmodifiedOf(a) == USub(USub(a.OldSize, a.Changes), a.Removes)

formatSummary(a, cl) ==
    [called      |-> TRUE,
     rowsUnmodified |-> rowsUnmodifiedOf(a),
     unmodified  |-> safePercent(rowsUnmodifiedOf(a), a.OldSize),
     insertions  |-> safePercent(a.Adds, a.OldSize),
     deletions   |-> safePercent(a.Removes, a.OldSize),
     changes     |-> safePercent(a.Changes, a.OldSize),
     cellChanges |-> FDiv(100 * a.CellChanges, a.OldSize * cl),
     oldSize     |-> a.OldSize,
     colLen      |-> cl]

NoFmt ==
    [called      |-> FALSE,
     rowsUnmodified |-> 0,
     unmodified  |-> FDiv(0, 1),
     insertions  |-> FDiv(0, 1),
     deletions   |-> FDiv(0, 1),
     changes     |-> FDiv(0, 1),
     cellChanges |-> FDiv(0, 1),
     oldSize     |-> 0,
     colLen      |-> 0]

(***************************************************************************)
(* diffSummary                                                             *)
(***************************************************************************)
SumIdle ==
    /\ from = <<>> /\ to = <<>> /\ colLen = 0
    /\ sumPc = "idle" /\ sumKey = 0 /\ sumErr = FALSE
    /\ ch = NoReport /\ chClosed = FALSE /\ closeCount = 0 /\ ae = FALSE
    /\ conPc = "idle" /\ p = NoReport /\ acc = ZeroProgress /\ count = 0
    /\ sentLog = <<>> /\ sumRet = "none" /\ fmtOut = NoFmt

\* diffSummary up to the loop: the channel is made, the goroutine started
SumInit ==
    /\ from \in Maps /\ to \in Maps /\ colLen \in 1..MaxColLen
    /\ sumPc = "run" /\ sumKey = 1 /\ sumErr = FALSE
    /\ ch = NoReport /\ chClosed = FALSE /\ closeCount = 0 /\ ae = FALSE
    /\ conPc = "recv" /\ p = NoReport /\ acc = ZeroProgress /\ count = 0
    /\ sentLog = <<>> /\ sumRet = "none" /\ fmtOut = NoFmt

\* diff.Summary reaches `ch <- report` and blocks on the unbuffered channel
SummarySend ==
    /\ UNCHANGED notSumVars
    /\ sumPc = "run"
    /\ NextKey(from, to, sumKey) <= MaxKey
    /\ ch' = ReportFor(from, to, NextKey(from, to, sumKey))
    /\ sumKey' = NextKey(from, to, sumKey) + 1
    /\ sumPc' = "sending"
    /\ UNCHANGED <<from, to, colLen, sumErr, chClosed, closeCount, ae, conPc,
                   p, acc, count, sentLog, sumRet, fmtOut>>

\* diff.Summary has walked both maps and returns nil
SummaryReturn ==
    /\ UNCHANGED notSumVars
    /\ sumPc = "run"
    /\ NextKey(from, to, sumKey) > MaxKey
    /\ sumErr' = FALSE
    /\ sumPc' = "ret"
    /\ UNCHANGED <<from, to, colLen, sumKey, ch, chClosed, closeCount, ae,
                   conPc, p, acc, count, sentLog, sumRet, fmtOut>>

\* the map iteration fails: diff.Summary returns the error
SummaryFail ==
    /\ UNCHANGED notSumVars
    /\ sumPc = "run"
    /\ sumErr' = TRUE
    /\ sumPc' = "ret"
    /\ UNCHANGED <<from, to, colLen, sumKey, ch, chClosed, closeCount, ae,
                   conPc, p, acc, count, sentLog, sumRet, fmtOut>>

\* ae.SetIfError(err)
GoSetIfError ==
    /\ UNCHANGED notSumVars
    /\ sumPc = "ret"
    /\ ae' = (ae \/ sumErr)
    /\ sumPc' = "set"
    /\ UNCHANGED <<from, to, colLen, sumKey, sumErr, ch, chClosed, closeCount,
                   conPc, p, acc, count, sentLog, sumRet, fmtOut>>

\* defer close(ch)
GoCloseForgotten ==
    /\ UNCHANGED notSumVars
    /\ sumPc = "set"
    /\ sumPc' = "closed"
    /\ UNCHANGED <<from, to, colLen, sumKey, sumErr, ch, chClosed, closeCount, ae,
                   conPc, p, acc, count, sentLog, sumRet, fmtOut>>

GoClose ==
    /\ UNCHANGED notSumVars
    /\ sumPc = "set"
    /\ chClosed' = TRUE
    /\ closeCount' = closeCount + 1
    /\ sumPc' = "closed"
    /\ UNCHANGED <<from, to, colLen, sumKey, sumErr, ch, ae, conPc, p, acc,
                   count, sentLog, sumRet, fmtOut>>

\* `for p := range ch` receives: the blocked send and the receive meet
ConRecv ==
    /\ UNCHANGED notSumVars
    /\ conPc = "recv"
    /\ sumPc = "sending"
    /\ p' = ch
    /\ sentLog' = Append(sentLog, ch)
    /\ ch' = NoReport
    /\ sumPc' = "run"
    /\ conPc' = "body"
    /\ UNCHANGED <<from, to, colLen, sumKey, sumErr, chClosed, closeCount, ae,
                   acc, count, sumRet, fmtOut>>

\* `for p := range ch` finds the channel closed and leaves the loop
ConClosed ==
    /\ UNCHANGED notSumVars
    /\ conPc = "recv"
    /\ chClosed
    /\ conPc' = "after"
    /\ UNCHANGED <<from, to, colLen, sumPc, sumKey, sumErr, ch, chClosed,
                   closeCount, ae, p, acc, count, sentLog, sumRet, fmtOut>>

\* acc.X += p.X for the six fields
AccAddSkipRemoves(a, r) ==
    [Adds        |-> a.Adds + r.Adds,
     Removes     |-> a.Removes,
     Changes     |-> a.Changes + r.Changes,
     CellChanges |-> a.CellChanges + r.CellChanges,
     NewSize     |-> a.NewSize + r.NewSize,
     OldSize     |-> a.OldSize + r.OldSize]

AccAdd(a, r) ==
    [Adds        |-> a.Adds + r.Adds,
     Removes     |-> a.Removes + r.Removes,
     Changes     |-> a.Changes + r.Changes,
     CellChanges |-> a.CellChanges + r.CellChanges,
     NewSize     |-> a.NewSize + r.NewSize,
     OldSize     |-> a.OldSize + r.OldSize]

\* the loop body: break when the error is set, else accumulate
ConBody ==
    /\ UNCHANGED notSumVars
    /\ conPc = "body"
    /\ IF ae
       THEN /\ conPc' = "after"
            /\ UNCHANGED <<acc, count>>
       ELSE /\ acc' = AccAdd(acc, p)
            /\ count' = count + 1
            /\ conPc' = "recv"
    /\ p' = NoReport
    /\ UNCHANGED <<from, to, colLen, sumPc, sumKey, sumErr, ch, chClosed,
                   closeCount, ae, sentLog, sumRet, fmtOut>>

\* after the loop: return the error, or print the statistics
ConFinish ==
    /\ UNCHANGED notSumVars
    /\ conPc = "after"
    /\ conPc' = "done"
    /\ IF ae
       THEN sumRet' = "err" /\ UNCHANGED fmtOut
       ELSE /\ sumRet' = "nil"
            /\ IF acc.NewSize > 0 \/ acc.OldSize > 0
               THEN fmtOut' = formatSummary(acc, colLen)
               ELSE UNCHANGED fmtOut
    /\ UNCHANGED <<from, to, colLen, sumPc, sumKey, sumErr, ch, chClosed,
                   closeCount, ae, p, acc, count, sentLog>>

SumNext ==
    \/ SummarySend
    \/ SummaryReturn
    \/ SummaryFail
    \/ GoSetIfError
    \/ GoClose
    \/ ConRecv
    \/ ConClosed
    \/ ConBody
    \/ ConFinish

(***************************************************************************)
(* diffRoots and diffSchemas                                               *)
(***************************************************************************)
\* bounds: the number of table deltas
MaxTables == 2

SchemaOnlyDiff == 1
DataOnlyDiff == 2
Summary == 4
SchemaAndDataDiff == 3
TabularDiffOutput == 1
SQLDiffOutput == 2

\* dArgs.diffParts&part != 0, for part a single bit
HasPart(parts, part) == (parts \div part) % 2 = 1

\* an errhand.VerboseError: nil, or the error of a phase of a table
NoErr == [tbl |-> 0, phase |-> "nil"]
ErrOf(i, phase) == [tbl |-> i, phase |-> phase]

\* a table delta is known by which of its tables are there: add has no
\* FromTable, drop no ToTable, mod has both, none has neither
IsAdd(td) == td \in {"add", "none"}
IsDrop(td) == td \in {"drop", "none"}

TableDeltaSeqs == UNION {[1..n -> {"add", "drop", "mod", "none"}] : n \in 1..MaxTables}

\* in tabular mode the loop goes on to the next table after the header of a
\* table that was added or dropped
skipsNoTable(output, td) == FALSE

skipsAddedOrDropped(output, td) ==
    output = TabularDiffOutput /\ (IsDrop(td) \/ IsAdd(td))

RootsIdle ==
    /\ rParts = 0 /\ rOutput = 0 /\ rTableSet = {} /\ rDeltas = <<>>
    /\ rIdx = 0 /\ rPc = "idle" /\ verr = NoErr /\ rRet = NoErr /\ rLog = <<>>

RootsInit ==
    /\ rParts \in {SchemaOnlyDiff, DataOnlyDiff, SchemaAndDataDiff, Summary}
    /\ rOutput \in {TabularDiffOutput, SQLDiffOutput}
    /\ rDeltas \in TableDeltaSeqs
    /\ rTableSet \in SUBSET (1..MaxTables)
    /\ rIdx = 0 /\ rPc = "start" /\ verr = NoErr /\ rRet = NoErr /\ rLog = <<>>

\* the loop moves to the next table delta, or diffRoots returns nil
RootsAdvance(i) ==
    IF i < Len(rDeltas)
    THEN rIdx' = i + 1 /\ rPc' = "head" /\ UNCHANGED rRet
    ELSE rIdx' = i /\ rPc' = "done" /\ rRet' = NoErr

\* diff.GetTableDeltas, and UnionTableNames when no table was named
RootsStart ==
    /\ UNCHANGED notRootVars
    /\ rPc = "start"
    /\ \E deltasErr \in BOOLEAN, namesErr \in BOOLEAN :
         IF deltasErr
         THEN /\ rPc' = "done" /\ rRet' = ErrOf(0, "deltas")
              /\ UNCHANGED <<rTableSet, rIdx>>
         ELSE IF rTableSet = {} /\ namesErr
         THEN /\ rPc' = "done" /\ rRet' = ErrOf(0, "names")
              /\ UNCHANGED <<rTableSet, rIdx>>
         ELSE /\ rTableSet' = IF rTableSet = {} THEN 1..Len(rDeltas) ELSE rTableSet
              /\ RootsAdvance(0)
    /\ UNCHANGED <<rParts, rOutput, rDeltas, verr, rLog>>

\* the loop body up to the phases: table filter, header, doc table, schemas, maps
RootsHead ==
    /\ UNCHANGED notRootVars
    /\ rPc = "head"
    /\ \E isDoc \in BOOLEAN, schErr \in BOOLEAN, mapErr \in BOOLEAN :
         IF rIdx \notin rTableSet
         THEN RootsAdvance(rIdx)
         ELSE IF rDeltas[rIdx] = "none"
         THEN rPc' = "done" /\ rRet' = ErrOf(rIdx, "bothNil") /\ UNCHANGED rIdx
         ELSE IF skipsAddedOrDropped(rOutput, rDeltas[rIdx])
         THEN RootsAdvance(rIdx)
         ELSE IF isDoc
         THEN RootsAdvance(rIdx)
         ELSE IF schErr
         THEN rPc' = "done" /\ rRet' = ErrOf(rIdx, "getSchemas") /\ UNCHANGED rIdx
         ELSE IF mapErr
         THEN rPc' = "done" /\ rRet' = ErrOf(rIdx, "getMaps") /\ UNCHANGED rIdx
         ELSE rPc' = "summary" /\ UNCHANGED <<rIdx, rRet>>
    \* printTableDiffSummary: the header of the table, in tabular mode
    /\ rLog' = IF /\ rIdx \in rTableSet /\ rDeltas[rIdx] # "none"
                  /\ rOutput = TabularDiffOutput
               THEN Append(rLog, [tbl |-> rIdx, phase |-> "header", err |-> FALSE])
               ELSE rLog
    /\ UNCHANGED <<rParts, rOutput, rTableSet, rDeltas, verr>>

\* if dArgs.diffParts&Summary != 0 { verr = diffSummary(...) }
RootsSummary ==
    /\ UNCHANGED notRootVars
    /\ rPc = "summary"
    /\ IF HasPart(rParts, Summary)
       THEN \E failed \in BOOLEAN :
              /\ verr' = IF failed THEN ErrOf(rIdx, "summary") ELSE NoErr
              /\ rLog' = Append(rLog, [tbl |-> rIdx, phase |-> "summary", err |-> failed])
       ELSE UNCHANGED <<verr, rLog>>
    /\ rPc' = "schema"
    /\ UNCHANGED <<rParts, rOutput, rTableSet, rDeltas, rIdx, rRet>>

\* diffSchemas: nil, err or panic
diffSchemas(td, output, schErr, eq, sqlErr) ==
    IF schErr THEN "err"
    ELSE IF eq THEN "nil"
    ELSE IF output = TabularDiffOutput
         THEN IF IsDrop(td) \/ IsAdd(td) THEN "panic" ELSE "nil"
         ELSE IF sqlErr THEN "err" ELSE "nil"

\* if dArgs.diffParts&SchemaOnlyDiff != 0 { verr = diffSchemas(...) }
RootsSchema ==
    /\ UNCHANGED notRootVars
    /\ rPc = "schema"
    /\ IF HasPart(rParts, SchemaOnlyDiff)
       THEN \E schErr \in BOOLEAN, eq \in BOOLEAN, sqlErr \in BOOLEAN :
              LET res == diffSchemas(rDeltas[rIdx], rOutput, schErr, eq, sqlErr)
              IN IF res = "panic"
                 THEN rPc' = "panic" /\ UNCHANGED <<verr, rLog>>
                 ELSE /\ verr' = IF res = "err" THEN ErrOf(rIdx, "schema") ELSE NoErr
                      /\ rLog' = Append(rLog, [tbl |-> rIdx, phase |-> "schema",
                                               err |-> (res = "err")])
                      /\ rPc' = "data"
       ELSE rPc' = "data" /\ UNCHANGED <<verr, rLog>>
    /\ UNCHANGED <<rParts, rOutput, rTableSet, rDeltas, rIdx, rRet>>

\* if dArgs.diffParts&DataOnlyDiff != 0 { ... verr = diffRows(...) }
RootsData ==
    /\ UNCHANGED notRootVars
    /\ rPc = "data"
    /\ IF HasPart(rParts, DataOnlyDiff)
       THEN IF IsDrop(rDeltas[rIdx]) /\ rOutput = SQLDiffOutput
            THEN \* continue
                 RootsAdvance(rIdx) /\ UNCHANGED <<verr, rLog>>
            ELSE \E failed \in BOOLEAN :
                   /\ verr' = IF failed THEN ErrOf(rIdx, "data") ELSE NoErr
                   /\ rLog' = Append(rLog, [tbl |-> rIdx, phase |-> "data", err |-> failed])
                   /\ rPc' = "check"
                   /\ UNCHANGED <<rIdx, rRet>>
       ELSE rPc' = "check" /\ UNCHANGED <<verr, rLog, rIdx, rRet>>
    /\ UNCHANGED <<rParts, rOutput, rTableSet, rDeltas>>

\* if verr != nil { return verr }
RootsCheck ==
    /\ UNCHANGED notRootVars
    /\ rPc = "check"
    /\ IF verr # NoErr
       THEN rPc' = "done" /\ rRet' = verr /\ UNCHANGED rIdx
       ELSE RootsAdvance(rIdx)
    /\ UNCHANGED <<rParts, rOutput, rTableSet, rDeltas, verr, rLog>>

RootsNext ==
    \/ RootsStart
    \/ RootsHead
    \/ RootsSummary
    \/ RootsSchema
    \/ RootsData
    \/ RootsCheck

(***************************************************************************)
(* diffRows: buildPipeline, header injection, and the pipeline it runs     *)
(***************************************************************************)
\* bounds: queue capacity, events of a finite source, the largest --limit
QCap == 2
MaxSrc == 1
MaxLimit == 1

\* srcLeft of a source that never reaches its end
Endless == -1

fwtStageName == "fwt"
NullPrintingStage == "null_printing"

\* a row in the pipeline is known by its kind: a diff event as the source
\* yields it, a sink row after the split, or a header row
EventKinds == {"added", "removed", "modified"}
HeaderKinds == {"hdr", "hdr_old", "hdr_new"}

\* buildPipeline: the named transforms, in order
buildPipelineSplitFirst(limit, where, output) ==
    <<"split_diffs">>
    \o (IF where \/ limit # 0 THEN <<"select">> ELSE <<>>)
    \o (IF output = TabularDiffOutput
        THEN <<NullPrintingStage, fwtStageName>> ELSE <<>>)

buildPipelineNoLimit(limit, where, output) ==
    (IF where THEN <<"select">> ELSE <<>>)
    \o <<"split_diffs">>
    \o (IF output = TabularDiffOutput
        THEN <<NullPrintingStage, fwtStageName>> ELSE <<>>)

buildPipeline(limit, where, output) ==
    (IF where \/ limit # 0 THEN <<"select">> ELSE <<>>)
    \o <<"split_diffs">>
    \o (IF output = TabularDiffOutput
        THEN <<NullPrintingStage, fwtStageName>> ELSE <<>>)

\* the position of a stage in the pipeline, 0 when it is absent
StageIndex(sts, name) ==
    IF \E i \in 1..Len(sts) : sts[i] = name
    THEN CHOOSE i \in 1..Len(sts) : sts[i] = name
    ELSE 0

\* SelectTransform.LimitAndFilter: the rows passed on, the new count, and
\* whether the pipeline is asked to stop its source; pass is what the where
\* predicate says of the row
LimitAndFilter(row, pass, cnt, limit) ==
    IF limit <= 0 \/ cnt < limit
    THEN IF pass
         THEN [out |-> <<row>>, count |-> cnt + 1,
               noMore |-> (limit > 0 /\ cnt + 1 = limit)]
         ELSE [out |-> <<>>, count |-> cnt, noMore |-> FALSE]
    ELSE [out |-> <<>>, count |-> cnt, noMore |-> TRUE]

\* DiffSplitter.SplitDiffIntoOldAndNew
SplitDiffIntoOldAndNew(row) ==
    IF row = "modified"
    THEN <<"mod_old", "mod_new">>
    ELSE <<row>>

\* badRowCallback: records the error and asks the pipeline to quit
badRowCallbackContinue == [badRowVErr |-> TRUE, quit |-> FALSE]

badRowCallback == [badRowVErr |-> TRUE, quit |-> TRUE]

RECURSIVE QueueWeight(_, _)
\* the sink rows the rows of queue q can still become; split tells whether
\* the queue lies before the split stage
QueueWeight(q, split) ==
    IF q = <<>> THEN 0
    ELSE (IF split /\ q[1] = "modified" THEN 2 ELSE 1)
         + QueueWeight(Tail(q), split)

RECURSIVE InFlight(_, _, _, _)
\* the sink rows the rows in queues j..Len(qs), and the rows injected at
\* their stages, can still become
InFlight(qs, inj, sts, j) ==
    IF j > Len(qs) THEN 0
    ELSE QueueWeight(qs[j], j <= StageIndex(sts, "split_diffs"))
         + (IF j <= Len(sts) THEN Len(inj[j]) ELSE 0)
         + InFlight(qs, inj, sts, j + 1)

\* the data rows among the rows the sink has received
DataRows(log) == SelectSeq(log, LAMBDA r : r \notin HeaderKinds)

PipeIdle ==
    /\ dLimit = 0 /\ dWhere = FALSE /\ dOutput = 0 /\ schemasEqual = FALSE
    /\ pPc = "idle" /\ stages = <<>> /\ queues = <<>> /\ injected = <<>>
    /\ numHeaderRows = 0
    /\ srcLeft = 0 /\ noMore = FALSE /\ stopped = FALSE /\ selCount = 0
    /\ sinkLog = <<>> /\ badRowVErr = FALSE /\ waitErr = FALSE
    /\ rowsRet = "none" /\ inFlightAtFail = -1 /\ sinkAfterFail = 0
    /\ qPaths = <<>> /\ sinkPaths = <<>>

\* diffRows is called; a source without end is one whose events all pass
PipeInit ==
    /\ dLimit \in -1..MaxLimit /\ dWhere \in BOOLEAN
    /\ dOutput \in {TabularDiffOutput, SQLDiffOutput}
    /\ schemasEqual \in BOOLEAN
    /\ srcLeft \in (0..MaxSrc) \cup (IF dLimit > 0 /\ ~dWhere THEN {Endless} ELSE {})
    /\ pPc = "build" /\ stages = <<>> /\ queues = <<>> /\ injected = <<>>
    /\ numHeaderRows = 0
    /\ noMore = FALSE /\ stopped = FALSE /\ selCount = 0
    /\ sinkLog = <<>> /\ badRowVErr = FALSE /\ waitErr = FALSE
    /\ rowsRet = "none" /\ inFlightAtFail = -1 /\ sinkAfterFail = 0
    /\ qPaths = <<>> /\ sinkPaths = <<>>

\* diffRows up to buildPipeline: joiner, splitter, differ, sink, pipeline
DiffRowsBuild ==
    /\ UNCHANGED notPipeVars
    /\ pPc = "build"
    /\ \E setupErr \in BOOLEAN :
         IF setupErr
         THEN /\ pPc' = "done" /\ rowsRet' = "err"
              /\ UNCHANGED <<stages, queues, injected, numHeaderRows, qPaths>>
         ELSE /\ stages' = buildPipeline(dLimit, dWhere, dOutput)
              /\ queues' = [i \in 1..(Len(buildPipeline(dLimit, dWhere, dOutput)) + 1) |-> <<>>]
              /\ qPaths' = [i \in 1..(Len(buildPipeline(dLimit, dWhere, dOutput)) + 1) |-> <<>>]
              /\ injected' = [i \in 1..Len(buildPipeline(dLimit, dWhere, dOutput)) |-> <<>>]
              /\ numHeaderRows' = IF schemasEqual THEN 1 ELSE 2
              /\ pPc' = "inject"
              /\ UNCHANGED rowsRet
    /\ UNCHANGED <<dLimit, dWhere, dOutput, schemasEqual, srcLeft, noMore, stopped,
                   selCount, sinkLog, badRowVErr, waitErr, inFlightAtFail,
                   sinkAfterFail, sinkPaths>>

\* the header rows injected at the fixed-width stage
HeaderRowsNewFirst(eq) ==
    IF eq THEN <<"hdr">> ELSE <<"hdr_new", "hdr_old">>

HeaderRows(eq) ==
    IF eq THEN <<"hdr">> ELSE <<"hdr_old", "hdr_new">>

\* p.InjectRow / p.InjectRowWithProps at fwtStageName, unless in SQL mode
DiffRowsInject ==
    /\ UNCHANGED notPipeVars
    /\ pPc = "inject"
    \* hdrErr: which NewRowFromTaggedStrings fails; the second one only runs
    \* when the schemas differ, after the first row was injected
    /\ \E hdrErr \in {"none", "first"} \cup (IF schemasEqual THEN {} ELSE {"second"}) :
         IF dOutput # SQLDiffOutput
         THEN IF hdrErr = "first"
              THEN pPc' = "done" /\ rowsRet' = "err" /\ UNCHANGED injected
              ELSE IF hdrErr = "second"
              THEN /\ injected' = [injected EXCEPT ![StageIndex(stages, fwtStageName)] =
                                      @ \o <<Head(HeaderRows(schemasEqual))>>]
                   /\ pPc' = "done" /\ rowsRet' = "err"
              ELSE /\ injected' = [injected EXCEPT ![StageIndex(stages, fwtStageName)] =
                                      @ \o HeaderRows(schemasEqual)]
                   /\ pPc' = "start"
                   /\ UNCHANGED rowsRet
         ELSE pPc' = "start" /\ UNCHANGED <<injected, rowsRet>>
    /\ UNCHANGED <<dLimit, dWhere, dOutput, schemasEqual, stages, queues, numHeaderRows,
                   srcLeft, noMore, stopped, selCount, sinkLog, badRowVErr, waitErr,
                   inFlightAtFail, sinkAfterFail, qPaths, sinkPaths>>

\* p.Start()
DiffRowsStart ==
    /\ UNCHANGED notPipeVars
    /\ pPc = "start"
    /\ pPc' = "running"
    /\ UNCHANGED <<dLimit, dWhere, dOutput, schemasEqual, stages, queues, injected,
                   numHeaderRows, srcLeft, noMore, stopped, selCount, sinkLog,
                   badRowVErr, waitErr, rowsRet, inFlightAtFail, sinkAfterFail,
                   qPaths, sinkPaths>>

\* the source worker: src.NextDiff yields an event, sent to the first stage
SrcProduce ==
    /\ UNCHANGED notPipeVars
    /\ pPc = "running" /\ ~noMore /\ ~stopped
    /\ srcLeft # 0
    /\ Len(queues[1]) < QCap
    /\ \E kind \in EventKinds :
         queues' = [queues EXCEPT ![1] = Append(@, kind)]
    /\ qPaths' = [qPaths EXCEPT ![1] = Append(@, <<>>)]
    /\ srcLeft' = IF srcLeft = Endless THEN Endless ELSE srcLeft - 1
    /\ UNCHANGED <<dLimit, dWhere, dOutput, schemasEqual, pPc, stages, injected,
                   numHeaderRows, noMore, stopped, selCount, sinkLog, badRowVErr,
                   waitErr, rowsRet, inFlightAtFail, sinkAfterFail, sinkPaths>>

\* what a stage makes of a row: its output rows, the select count, NoMore
Transform(name, row, pass) ==
    IF name = "select" THEN LimitAndFilter(row, pass, selCount, dLimit)
    ELSE IF name = "split_diffs"
    THEN [out |-> SplitDiffIntoOldAndNew(row), count |-> selCount, noMore |-> FALSE]
    ELSE [out |-> <<row>>, count |-> selCount, noMore |-> FALSE]

\* the next row of stage i: a row injected at the stage goes first
StageInput(i) ==
    IF injected[i] # <<>> THEN Head(injected[i]) ELSE Head(queues[i])

\* the input of stage i without its next row
TakeInput(i) ==
    IF injected[i] # <<>>
    THEN [q |-> queues[i], inj |-> Tail(injected[i]), paths |-> qPaths[i]]
    ELSE [q |-> Tail(queues[i]), inj |-> injected[i], paths |-> Tail(qPaths[i])]

\* the stages the next row of stage i has passed: none for an injected row
InputPath(i) ==
    IF injected[i] # <<>> THEN <<>> ELSE Head(qPaths[i])

\* the worker of stage i takes a row, transforms it and sends the results on
StageStep(i) ==
    /\ pPc = "running"
    /\ injected[i] # <<>> \/ queues[i] # <<>>
    /\ \E pass \in (IF stages[i] = "select" /\ dWhere THEN BOOLEAN ELSE {TRUE}) :
         LET res == Transform(stages[i], StageInput(i), pass)
         IN /\ Len(queues[i + 1]) + Len(res.out) <= QCap
            /\ queues' = [queues EXCEPT ![i] = TakeInput(i).q, ![i + 1] = @ \o res.out]
            /\ injected' = [injected EXCEPT ![i] = TakeInput(i).inj]
            /\ qPaths' = [qPaths EXCEPT ![i] = TakeInput(i).paths,
                                        ![i + 1] = @ \o [k \in 1..Len(res.out) |->
                                                            Append(InputPath(i), stages[i])]]
            /\ selCount' = res.count
            /\ noMore' = (noMore \/ res.noMore)
    /\ UNCHANGED <<dLimit, dWhere, dOutput, schemasEqual, pPc, stages,
                   numHeaderRows, srcLeft, stopped, sinkLog, badRowVErr, waitErr,
                   rowsRet, inFlightAtFail, sinkAfterFail, sinkPaths>>

\* the transform of stage i fails on a row: the bad-row callback decides
StageFail(i) ==
    /\ pPc = "running" /\ ~stopped
    /\ injected[i] = <<>> /\ queues[i] # <<>>
    /\ queues' = [queues EXCEPT ![i] = Tail(@)]
    /\ qPaths' = [qPaths EXCEPT ![i] = Tail(@)]
    /\ badRowVErr' = badRowCallback.badRowVErr
    /\ stopped' = badRowCallback.quit
    /\ inFlightAtFail' = IF inFlightAtFail = -1
                         THEN InFlight(queues', injected, stages, 1)
                         ELSE inFlightAtFail
    /\ UNCHANGED <<dLimit, dWhere, dOutput, schemasEqual, pPc, stages, injected,
                   numHeaderRows, srcLeft, noMore, selCount, sinkLog, waitErr,
                   rowsRet, sinkAfterFail, sinkPaths>>

StageWork ==
    /\ UNCHANGED notPipeVars
    /\ \E i \in 1..Len(stages) : StageStep(i)

StageBadRow ==
    /\ UNCHANGED notPipeVars
    /\ \E i \in 1..Len(stages) : StageFail(i)

\* the sink worker: sink.ProcRowWithProps
SinkStep ==
    /\ UNCHANGED notPipeVars
    /\ pPc = "running"
    /\ queues[Len(stages) + 1] # <<>>
    /\ sinkLog' = Append(sinkLog, Head(queues[Len(stages) + 1]))
    /\ sinkPaths' = Append(sinkPaths, Head(qPaths[Len(stages) + 1]))
    /\ queues' = [queues EXCEPT ![Len(stages) + 1] = Tail(@)]
    /\ qPaths' = [qPaths EXCEPT ![Len(stages) + 1] = Tail(@)]
    /\ sinkAfterFail' = IF inFlightAtFail # -1 THEN sinkAfterFail + 1 ELSE sinkAfterFail
    /\ UNCHANGED <<dLimit, dWhere, dOutput, schemasEqual, pPc, stages, injected,
                   numHeaderRows, srcLeft, noMore, stopped, selCount, badRowVErr,
                   waitErr, rowsRet, inFlightAtFail>>

\* the source has ended and every queue is empty
Drained ==
    /\ srcLeft = 0 \/ noMore
    /\ \A j \in 1..Len(queues) : queues[j] = <<>>
    /\ \A j \in 1..Len(injected) : injected[j] = <<>>

\* p.Wait() returns: all drained, or the pipeline was stopped and the rows
\* still in flight are discarded
DiffRowsWait ==
    /\ UNCHANGED notPipeVars
    /\ pPc = "running"
    /\ stopped \/ Drained
    /\ \E e \in (IF stopped THEN BOOLEAN ELSE {FALSE}) : waitErr' = e
    /\ pPc' = "waited"
    /\ queues' = [j \in 1..Len(queues) |-> <<>>]
    /\ qPaths' = [j \in 1..Len(queues) |-> <<>>]
    /\ injected' = [j \in 1..Len(injected) |-> <<>>]
    /\ UNCHANGED <<dLimit, dWhere, dOutput, schemasEqual, stages,
                   numHeaderRows, srcLeft, noMore, stopped, selCount, sinkLog,
                   badRowVErr, rowsRet, inFlightAtFail, sinkAfterFail, sinkPaths>>

\* diffRows returns the Wait error, else badRowVErr, else nil
DiffRowsReturn ==
    /\ UNCHANGED notPipeVars
    /\ pPc = "waited"
    /\ rowsRet' = IF waitErr THEN "err" ELSE IF badRowVErr THEN "err" ELSE "nil"
    /\ pPc' = "done"
    /\ UNCHANGED <<dLimit, dWhere, dOutput, schemasEqual, stages, queues, injected,
                   numHeaderRows, srcLeft, noMore, stopped, selCount, sinkLog,
                   badRowVErr, waitErr, inFlightAtFail, sinkAfterFail,
                   qPaths, sinkPaths>>

PipeNext ==
    \/ DiffRowsBuild
    \/ DiffRowsInject
    \/ DiffRowsStart
    \/ SrcProduce
    \/ StageWork
    \/ StageBadRow
    \/ SinkStep
    \/ DiffRowsWait
    \/ DiffRowsReturn

(***************************************************************************)
(* The asynchronous differ diffRows starts                                 *)
(***************************************************************************)
\* bound: the capacity of the differ's channel.  diffRows asks for a buffer
\* of 1024 events; the model's is small, so that the producer meets a full
\* buffer
AdBufCap == 1

\* a DiffEvent
Added(k, new) == [type |-> "Added", key |-> k, old |-> -1, new |-> new]
Removed(k, old) == [type |-> "Removed", key |-> k, old |-> old, new |-> -1]
Modified(k, old, new) == [type |-> "Modified", key |-> k, old |-> old, new |-> new]

RECURSIVE SortedKeysFrom(_, _)
\* the keys of map m from key k on, ascending
SortedKeysFrom(m, k) ==
    IF k > MaxKey THEN <<>>
    ELSE (IF k \in DOMAIN m THEN <<k>> ELSE <<>>) \o SortedKeysFrom(m, k + 1)

\* ad.Start(ctx, fromRows, toRows): the maps the differ walks
adStartSwapped(f, t) == [from |-> t, to |-> f]

adStart(f, t) == [from |-> f, to |-> t]

\* one step of the merge walk with cursors i and j on the sorted keys: the
\* event to emit (none: <<>>) and the cursors after it
MergeStep(f, t, i, j) ==
    LET fk == SortedKeysFrom(f, 1)
        tk == SortedKeysFrom(t, 1)
    IN IF j > Len(tk) \/ (i <= Len(fk) /\ fk[i] < tk[j])
       THEN [emit |-> <<Removed(fk[i], f[fk[i]])>>, i |-> i + 1, j |-> j]
       ELSE IF i > Len(fk) \/ tk[j] < fk[i]
       THEN [emit |-> <<Added(tk[j], t[tk[j]])>>, i |-> i, j |-> j + 1]
       ELSE [emit |-> IF f[fk[i]] # t[tk[j]]
                      THEN <<Modified(fk[i], f[fk[i]], t[tk[j]])>>
                      ELSE <<>>,
             i |-> i + 1, j |-> j + 1]

\* both cursors are past the end
WalkDone(f, t, i, j) ==
    i > Len(SortedKeysFrom(f, 1)) /\ j > Len(SortedKeysFrom(t, 1))

AdIdle ==
    /\ fromRows = <<>> /\ toRows = <<>> /\ adFrom = <<>> /\ adTo = <<>>
    /\ adPc = "idle" /\ adI = 0 /\ adJ = 0 /\ adChan = <<>>
    /\ adClosed = FALSE /\ adErr = FALSE /\ recvLog = <<>> /\ srcPc = "idle"

\* diffRows holds the two row maps and the new differ
AdInit ==
    /\ fromRows \in Maps /\ toRows \in Maps /\ adFrom = <<>> /\ adTo = <<>>
    /\ adPc = "new" /\ adI = 0 /\ adJ = 0 /\ adChan = <<>>
    /\ adClosed = FALSE /\ adErr = FALSE /\ recvLog = <<>> /\ srcPc = "idle"

\* ad.Start: the background walk begins
AdStart ==
    /\ UNCHANGED notAdVars
    /\ adPc = "new"
    /\ adFrom' = adStart(fromRows, toRows).from
    /\ adTo' = adStart(fromRows, toRows).to
    /\ adI' = 1 /\ adJ' = 1
    /\ adPc' = "walk"
    /\ srcPc' = "pull"
    /\ UNCHANGED <<fromRows, toRows, adChan, adClosed, adErr, recvLog>>

\* the walk takes a step; an event is sent when the channel has room
AdWalk ==
    /\ UNCHANGED notAdVars
    /\ adPc = "walk"
    /\ ~WalkDone(adFrom, adTo, adI, adJ)
    /\ LET st == MergeStep(adFrom, adTo, adI, adJ)
       IN /\ Len(adChan) + Len(st.emit) <= AdBufCap
          /\ adChan' = adChan \o st.emit
          /\ adI' = st.i /\ adJ' = st.j
    /\ UNCHANGED <<fromRows, toRows, adFrom, adTo, adPc, adClosed, adErr,
                   recvLog, srcPc>>

\* the walk has passed both maps: the channel is closed
AdFinish ==
    /\ UNCHANGED notAdVars
    /\ adPc = "walk"
    /\ WalkDone(adFrom, adTo, adI, adJ)
    /\ adPc' = "done"
    /\ adClosed' = TRUE
    /\ UNCHANGED <<fromRows, toRows, adFrom, adTo, adI, adJ, adChan, adErr,
                   recvLog, srcPc>>

\* the map iteration fails: the walk is aborted, the error is for the consumer
AdFail ==
    /\ UNCHANGED notAdVars
    /\ adPc = "walk"
    /\ adPc' = "failed"
    /\ adErr' = TRUE
    /\ adClosed' = TRUE
    /\ UNCHANGED <<fromRows, toRows, adFrom, adTo, adI, adJ, adChan, recvLog,
                   srcPc>>

\* the consumer (the row diff source) pulls the next event
SrcPull ==
    /\ UNCHANGED notAdVars
    /\ srcPc = "pull"
    /\ adChan # <<>>
    /\ recvLog' = Append(recvLog, Head(adChan))
    /\ adChan' = Tail(adChan)
    /\ UNCHANGED <<fromRows, toRows, adFrom, adTo, adPc, adI, adJ, adClosed,
                   adErr, srcPc>>

\* the consumer finds the channel closed and empty
SrcEnd ==
    /\ UNCHANGED notAdVars
    /\ srcPc = "pull"
    /\ adChan = <<>> /\ adClosed
    /\ srcPc' = IF adErr THEN "error" ELSE "end"
    /\ UNCHANGED <<fromRows, toRows, adFrom, adTo, adPc, adI, adJ, adChan,
                   adClosed, adErr, recvLog>>

\* defer ad.Close(): diffRows returns before the end of the walk
AdClose ==
    /\ UNCHANGED notAdVars
    /\ srcPc = "pull"
    /\ adPc \in {"walk", "done", "failed"}
    /\ srcPc' = "closed"
    /\ adPc' = IF adPc = "walk" THEN "stopped" ELSE adPc
    /\ adChan' = <<>>
    /\ adClosed' = TRUE
    /\ UNCHANGED <<fromRows, toRows, adFrom, adTo, adI, adJ, adErr, recvLog>>

AdNext ==
    \/ AdStart
    \/ AdWalk
    \/ AdFinish
    \/ AdFail
    \/ SrcPull
    \/ SrcEnd
    \/ AdClose

(***************************************************************************)
(* parseDiffArgs and getRoots                                              *)
(***************************************************************************)
\* bound: the number of positional arguments
MaxArgs == 3

\* positional arguments: names that resolve to a commit, and a table name
CommitNames == {"c1", "c2"}
ArgNames == CommitNames \cup {"t1"}

ArgLists == UNION {[1..n -> ArgNames] : n \in 0..MaxArgs}

NilRoot == "nil"
HeadRootValue == "HEAD"
WorkingRootValue == "WORKING"

\* the tail of args from position k on (args[k-1:] in Go)
ArgsFromOffByOne(args, k) == SubSeq(args, k + 1, Len(args))

ArgsFrom(args, k) == SubSeq(args, k, Len(args))

\* maybeResolve: the root of the commit spec names, if it names one
maybeResolve(spec) ==
    IF spec \in CommitNames THEN [root |-> spec, ok |-> TRUE]
    ELSE [root |-> NilRoot, ok |-> FALSE]

\* getRoots: err is what WorkingRoot returned; HeadRoot's is overwritten
getRoots(args, hErr, wErr) ==
    LET headRoot == IF hErr THEN NilRoot ELSE HeadRootValue
        workingRoot == IF wErr THEN NilRoot ELSE WorkingRootValue
    IN IF wErr
       THEN [from |-> NilRoot, to |-> NilRoot, leftover |-> <<>>, err |-> TRUE]
       ELSE IF Len(args) = 0
       THEN [from |-> headRoot, to |-> workingRoot, leftover |-> <<>>, err |-> FALSE]
       ELSE IF ~maybeResolve(args[1]).ok
       THEN [from |-> headRoot, to |-> workingRoot, leftover |-> args, err |-> FALSE]
       ELSE IF Len(args) = 1
       THEN [from |-> maybeResolve(args[1]).root, to |-> workingRoot,
             leftover |-> <<>>, err |-> FALSE]
       ELSE IF ~maybeResolve(args[2]).ok
       THEN [from |-> maybeResolve(args[1]).root, to |-> workingRoot,
             leftover |-> ArgsFrom(args, 2), err |-> FALSE]
       ELSE [from |-> maybeResolve(args[1]).root, to |-> maybeResolve(args[2]).root,
             leftover |-> ArgsFrom(args, 3), err |-> FALSE]

\* the diffParts parseDiffArgs selects from the flags, before --summary
partsOfFlags(data, schema) ==
    IF data /\ ~schema THEN DataOnlyDiff
    ELSE IF schema /\ ~data THEN SchemaOnlyDiff
    ELSE SchemaAndDataDiff

NoArgs ==
    [err |-> "none", diffParts |-> 0, diffOutput |-> 0, limit |-> 0,
     where |-> FALSE, from |-> NilRoot, to |-> NilRoot, tableSet |-> {}]

ArgsError(e) == [NoArgs EXCEPT !.err = e]

\* the loop that verifies that each table exists in one of the roots
verifyTables(rts, known, tErr) ==
    IF rts.leftover = <<>> THEN "ok"
    ELSE IF rts.from = NilRoot THEN "panic"
    ELSE IF tErr THEN "get_table"
    ELSE IF \E i \in 1..Len(rts.leftover) : rts.leftover[i] \notin known
    THEN "no_table"
    ELSE "ok"

parseDiffArgsNoCheck(a, hErr, wErr, known, tErr) ==
    LET parts == IF a.summary THEN Summary ELSE partsOfFlags(a.data, a.schema)
        rts == getRoots(a.args, hErr, wErr)
    IN IF rts.err THEN ArgsError("roots")
       ELSE IF verifyTables(rts, known, tErr) # "ok"
       THEN ArgsError(verifyTables(rts, known, tErr))
       ELSE [err |-> "nil", diffParts |-> parts,
             diffOutput |-> IF a.sql THEN SQLDiffOutput ELSE TabularDiffOutput,
             limit |-> a.limit, where |-> a.where,
             from |-> rts.from, to |-> rts.to,
             tableSet |-> {rts.leftover[i] : i \in 1..Len(rts.leftover)}]

parseDiffArgs(a, hErr, wErr, known, tErr) ==
    LET parts == IF a.summary THEN Summary ELSE partsOfFlags(a.data, a.schema)
        rts == getRoots(a.args, hErr, wErr)
    IN IF a.summary /\ (a.schema \/ a.data) THEN ArgsError("summary_combined")
       ELSE IF rts.err THEN ArgsError("roots")
       ELSE IF verifyTables(rts, known, tErr) # "ok"
       THEN ArgsError(verifyTables(rts, known, tErr))
       ELSE [err |-> "nil", diffParts |-> parts,
             diffOutput |-> IF a.sql THEN SQLDiffOutput ELSE TabularDiffOutput,
             limit |-> a.limit, where |-> a.where,
             from |-> rts.from, to |-> rts.to,
             tableSet |-> {rts.leftover[i] : i \in 1..Len(rts.leftover)}]

NoApr == [data |-> FALSE, schema |-> FALSE, summary |-> FALSE, sql |-> FALSE,
          limit |-> 0, where |-> FALSE, args |-> <<>>]

ArgsIdle ==
    /\ apr = NoApr /\ headFails = FALSE /\ workFails = FALSE
    /\ knownTables = {} /\ getTableFails = FALSE
    /\ argsPc = "idle" /\ roots = getRoots(<<>>, TRUE, TRUE) /\ dArgs = NoArgs

\* Exec has parsed the command line; the environment is as it is
ArgsInit ==
    /\ apr \in [data : BOOLEAN, schema : BOOLEAN, summary : BOOLEAN, sql : BOOLEAN,
                limit : 0..1, where : BOOLEAN, args : ArgLists]
    /\ headFails \in BOOLEAN /\ workFails \in BOOLEAN
    /\ knownTables \in SUBSET {"t1"} /\ getTableFails \in BOOLEAN
    /\ argsPc = "call" /\ roots = getRoots(<<>>, TRUE, TRUE) /\ dArgs = NoArgs

\* parseDiffArgs runs
ParseDiffArgs ==
    /\ UNCHANGED notArgsVars
    /\ argsPc = "call"
    /\ dArgs' = parseDiffArgs(apr, headFails, workFails, knownTables, getTableFails)
    /\ roots' = IF apr.summary /\ (apr.schema \/ apr.data)
                THEN roots
                ELSE getRoots(apr.args, headFails, workFails)
    /\ argsPc' = "done"
    /\ UNCHANGED <<apr, headFails, workFails, knownTables, getTableFails>>

\* Exec goes on: an error is reported, or diffRoots is called
ExecAfterParse ==
    /\ UNCHANGED notArgsVars
    /\ argsPc = "done"
    /\ argsPc' = IF dArgs.err # "nil" THEN "failed" ELSE "diffRoots"
    /\ UNCHANGED <<apr, headFails, workFails, knownTables, getTableFails, roots, dArgs>>

ArgsNext ==
    \/ ParseDiffArgs
    \/ ExecAfterParse

(***************************************************************************)
(* Rows and schemas: row.AreEqual, row.IsValid                             *)
(***************************************************************************)
\* bounds: the largest column tag, the largest value of a cell, and the
\* longest list of constraints of a column
MaxTag == 2
MaxRowVal == 1
MaxConstraints == 1

RowTags == 1..MaxTag
RowVals == 0..MaxRowVal

\* the nil types.Value that GetColVal returns for a tag the row does not hold
NilVal == -1

\* a row is a sparse mapping from tag to value; the nil Row holds nothing
NilRow == [isNil |-> TRUE, vals |-> <<>>]
Rows == {[isNil |-> FALSE, vals |-> f] : f \in UNION {[D -> RowVals] : D \in SUBSET RowTags}}

\* r.GetColVal(tag): the value, or nil
GetColVal(r, tag) == IF tag \in DOMAIN r.vals THEN r.vals[tag] ELSE NilVal

\* the constraints: NotNull rejects nil; NonZero accepts nil and rejects 0
ConstraintKinds == {"NotNull", "NonZero"}

SatisfiesConstraint(cnst, val) ==
    IF cnst = "NotNull" THEN val # NilVal ELSE val # 0

ConstraintLists == UNION {[1..n -> ConstraintKinds] : n \in 0..MaxConstraints}

\* the tags of a set, ascending: the order in which a column collection
\* is iterated
RECURSIVE SortedTags(_)
SortedTags(S) ==
    IF S = {} THEN <<>>
    ELSE LET m == CHOOSE x \in S : \A y \in S : x <= y
         IN <<m>> \o SortedTags(S \ {m})

\* valutil.NilSafeEqCheck
NilSafeEqCheck(val1, val2) ==
    IF val1 = NilVal /\ val2 = NilVal THEN TRUE
    ELSE IF val1 = NilVal \/ val2 = NilVal THEN FALSE
    ELSE val1 = val2

\* the loop of AreEqual over the tags from position i on
RECURSIVE AreEqualFrom(_, _, _, _)
AreEqualFrom(row1, row2, tags, i) ==
    IF i > Len(tags) THEN TRUE
    ELSE IF ~NilSafeEqCheck(GetColVal(row1, tags[i]), GetColVal(row2, tags[i]))
    THEN FALSE
    ELSE AreEqualFrom(row1, row2, tags, i + 1)

AreEqualIgnoreAbsent(row1, row2, sch) ==
    IF row1.isNil /\ row2.isNil THEN TRUE
    ELSE IF row1.isNil \/ row2.isNil THEN FALSE
    ELSE \A tag \in DOMAIN sch :
            \/ tag \notin DOMAIN row1.vals
            \/ tag \notin DOMAIN row2.vals
            \/ row1.vals[tag] = row2.vals[tag]

AreEqual(row1, row2, sch) ==
    IF row1.isNil /\ row2.isNil THEN TRUE
    ELSE IF row1.isNil \/ row2.isNil THEN FALSE
    ELSE AreEqualFrom(row1, row2, SortedTags(DOMAIN sch), 1)

\* the loop of IsValid over the constraints of one column
RECURSIVE ConstraintsHold(_, _, _)
ConstraintsHold(cnsts, val, i) ==
    IF i > Len(cnsts) THEN TRUE
    ELSE IF ~SatisfiesConstraint(cnsts[i], val) THEN FALSE
    ELSE ConstraintsHold(cnsts, val, i + 1)

\* the loop of IsValid over the columns from position i on
RECURSIVE IsValidFrom(_, _, _, _)
IsValidFrom(r, sch, tags, i) ==
    IF i > Len(tags) THEN TRUE
    ELSE IF /\ Len(sch[tags[i]]) > 0
            /\ ~ConstraintsHold(sch[tags[i]], GetColVal(r, tags[i]), 1)
    THEN FALSE
    ELSE IsValidFrom(r, sch, tags, i + 1)

IsValidPresentOnly(r, sch) ==
    \A tag \in DOMAIN sch \cap DOMAIN r.vals :
        ConstraintsHold(sch[tag], r.vals[tag], 1)

IsValid(r, sch) == IsValidFrom(r, sch, SortedTags(DOMAIN sch), 1)

\* the schemas: the constraints of each column, by tag
RowSchemas == UNION {[D -> ConstraintLists] : D \in SUBSET RowTags}

RowIdle ==
    /\ rowA = NilRow /\ rowB = NilRow /\ rowSch = <<>>
    /\ rowPc = "idle" /\ rowRet = FALSE

\* two rows, nil or not, and a schema: AreEqual is about to be called.
\* AreEqual reads the tags of sch and nothing else of its columns.
RowEqInit ==
    /\ rowA \in Rows \cup {NilRow}
    /\ rowB \in Rows \cup {NilRow}
    /\ rowSch \in UNION {[D -> {<<>>}] : D \in SUBSET RowTags}
    /\ rowPc = "callAreEqual" /\ rowRet = FALSE

\* a row and a schema: IsValid is about to be called
RowValidInit ==
    /\ rowA \in Rows
    /\ rowB = NilRow
    /\ rowSch \in RowSchemas
    /\ rowPc = "callIsValid" /\ rowRet = FALSE

CallAreEqual ==
    /\ UNCHANGED notRowVars
    /\ rowPc = "callAreEqual"
    /\ rowRet' = AreEqual(rowA, rowB, rowSch)
    /\ rowPc' = "areEqualDone"
    /\ UNCHANGED <<rowA, rowB, rowSch>>

CallIsValid ==
    /\ UNCHANGED notRowVars
    /\ rowPc = "callIsValid"
    /\ rowRet' = IsValid(rowA, rowSch)
    /\ rowPc' = "isValidDone"
    /\ UNCHANGED <<rowA, rowB, rowSch>>

RowEqNext ==
    \/ CallAreEqual

RowValidNext ==
    \/ CallIsValid

(***************************************************************************)
(* dumbDownSchema                                                          *)
(***************************************************************************)
\* bound: the largest tag of a column of the schema
MaxSchTag == 12

\* the tags a schema draws its columns from: one and two digits long
SchTagPool == {0, 10, MaxSchTag}

OtherTag(t) == IF t = 0 THEN 10 ELSE IF t = 10 THEN MaxSchTag ELSE 0

\* strings are sequences of characters
DecimalDigits == <<"0", "1", "2", "3", "4", "5", "6", "7", "8", "9">>

\* strconv.FormatUint(n, 10)
RECURSIVE FormatUint(_)
FormatUint(n) ==
    IF n < 10 THEN <<DecimalDigits[n + 1]>>
    ELSE FormatUint(n \div 10) \o <<DecimalDigits[(n % 10) + 1]>>

\* the columns a schema may hold for tag t: the name is one no other tag's
\* column has, and may be the decimal string of another tag
ColumnsOf(t) ==
    [Tag : {t},
     Name : {<<"c">> \o FormatUint(t), FormatUint(OtherTag(t))},
     Kind : {"int", "string"},
     IsPartOfPK : BOOLEAN,
     Constraints : ConstraintLists]

Schemas ==
    UNION {{s \in [D -> UNION {ColumnsOf(t) : t \in D}] : \A t \in D : s[t].Tag = t}
           : D \in SUBSET SchTagPool}

\* the callback of allCols.Iter: col is a copy of the column
dumbColKeepConstraints(tag, col) == [col EXCEPT !.Name = FormatUint(tag)]

dumbCol(tag, col) == [col EXCEPT !.Name = FormatUint(tag), !.Constraints = <<>>]

\* allCols.Iter: dumbCols, in the order of the tags from position i on
RECURSIVE dumbColsFrom(_, _, _)
dumbColsFrom(in, tags, i) ==
    IF i > Len(tags) THEN <<>>
    ELSE <<dumbCol(tags[i], in[tags[i]])>> \o dumbColsFrom(in, tags, i + 1)

\* schema.NewColCollection: the columns by tag, the first one of a tag kept
NewColCollection(cols) ==
    [t \in {cols[i].Tag : i \in 1..Len(cols)} |->
        cols[CHOOSE i \in 1..Len(cols) :
                /\ cols[i].Tag = t
                /\ \A j \in 1..(i - 1) : cols[j].Tag # t]]

\* schema.SchemaFromCols
SchemaFromCols(coll) == coll

dumbDownSchema(in) ==
    SchemaFromCols(NewColCollection(dumbColsFrom(in, SortedTags(DOMAIN in), 1)))

SchIdle ==
    /\ schIn = <<>> /\ schAtCall = <<>> /\ schOut = <<>> /\ schPc = "idle"

\* a schema: dumbDownSchema is about to be called on it
SchInit ==
    /\ schIn \in Schemas
    /\ schAtCall = schIn
    /\ schOut = <<>>
    /\ schPc = "call"

\* dumbDownSchema runs: the columns it changes are copies, in is left alone
DumbDownSchema ==
    /\ UNCHANGED notSchVars
    /\ schPc = "call"
    /\ schOut' = dumbDownSchema(schIn)
    /\ schPc' = "done"
    /\ UNCHANGED <<schIn, schAtCall>>

SchNext ==
    \/ DumbDownSchema

(***************************************************************************)
(* tabularSchemaDiff                                                       *)
(***************************************************************************)
\* the columns the old or the new schema may hold for tag t
DiffColumnsOf(t) ==
    [Tag : {t},
     Name : {<<"a">> \o FormatUint(t), <<"b">> \o FormatUint(t)},
     Kind : {"int", "string"},
     IsPartOfPK : BOOLEAN]

DiffSchemas ==
    UNION {{s \in [D -> UNION {DiffColumnsOf(t) : t \in D}] : \A t \in D : s[t].Tag = t}
           : D \in SUBSET RowTags}

\* diff.DiffSchemas: the union of the tags, those of the old schema first
unionTagsOf(old, new) ==
    SortedTags(DOMAIN old) \o SortedTags(DOMAIN new \ DOMAIN old)

NoColumn == [Tag |-> 0, Name |-> <<>>, Kind |-> "none", IsPartOfPK |-> FALSE]

\* diff.DiffSchemas: the SchemaDifference of a tag
schemaDifference(old, new, tag) ==
    IF tag \in DOMAIN old /\ tag \in DOMAIN new
    THEN [DiffType |-> IF old[tag] = new[tag] THEN "SchDiffNone" ELSE "SchDiffColModified",
          Old |-> old[tag], New |-> new[tag]]
    ELSE IF tag \in DOMAIN old
    THEN [DiffType |-> "SchDiffColRemoved", Old |-> old[tag], New |-> NoColumn]
    ELSE [DiffType |-> "SchDiffColAdded", Old |-> NoColumn, New |-> new[tag]]

\* color.YellowString and sqlfmt.QuoteIdentifier: the name, and whether it
\* is wrapped in the colour codes
PlainName(n) == [name |-> n, yellow |-> FALSE]
YellowString(n) == [name |-> n, yellow |-> TRUE]

\* one pass of the loop of tabularSchemaDiff: what it appends to the lists
pkStep(dff, pks) ==
    IF dff.DiffType = "SchDiffNone"
    THEN IF dff.New.IsPartOfPK
         THEN [old |-> Append(pks.old, PlainName(dff.Old.Name)),
               new |-> Append(pks.new, PlainName(dff.New.Name))]
         ELSE pks
    ELSE IF dff.DiffType = "SchDiffColAdded"
    THEN IF dff.New.IsPartOfPK
         THEN [pks EXCEPT !.new = Append(@, PlainName(dff.New.Name))]
         ELSE pks
    ELSE IF dff.DiffType = "SchDiffColRemoved"
    THEN IF dff.Old.IsPartOfPK
         THEN [pks EXCEPT !.old = Append(@, PlainName(dff.Old.Name))]
         ELSE pks
    ELSE LET n0 == IF dff.Old.Name # dff.New.Name
                   THEN YellowString(dff.Old.Name) ELSE PlainName(dff.Old.Name)
             n1 == IF dff.Old.Name # dff.New.Name
                   THEN YellowString(dff.New.Name) ELSE PlainName(dff.New.Name)
         IN IF dff.Old.IsPartOfPK # dff.New.IsPartOfPK
            THEN IF dff.Old.IsPartOfPK /\ ~dff.New.IsPartOfPK
                 THEN [pks EXCEPT !.old = Append(@, n0)]
                 ELSE [pks EXCEPT !.new = Append(@, n1)]
            ELSE pks

\* the loop over the union tags from position i on
RECURSIVE pkListsFrom(_, _, _, _, _)
pkListsFrom(old, new, tags, i, pks) ==
    IF i > Len(tags) THEN pks
    ELSE pkListsFrom(old, new, tags, i + 1,
                     pkStep(schemaDifference(old, new, tags[i]), pks))

tabularSchemaDiff(old, new) ==
    pkListsFrom(old, new, unionTagsOf(old, new), 1, [old |-> <<>>, new |-> <<>>])

SdIdle ==
    /\ sdOld = <<>> /\ sdNew = <<>> /\ sdPc = "idle"
    /\ oldPks = <<>> /\ newPks = <<>> /\ pkLineChanged = FALSE

\* diffSchemas has two schemas that differ, of a table in both roots
SdInit ==
    /\ sdOld \in DiffSchemas /\ sdNew \in DiffSchemas
    /\ sdOld # sdNew
    /\ sdPc = "call"
    /\ oldPks = <<>> /\ newPks = <<>> /\ pkLineChanged = FALSE

\* tabularSchemaDiff runs: the key lists, and whether they print as a change
TabularSchemaDiff ==
    /\ UNCHANGED notSdVars
    /\ sdPc = "call"
    /\ oldPks' = tabularSchemaDiff(sdOld, sdNew).old
    /\ newPks' = tabularSchemaDiff(sdOld, sdNew).new
    /\ pkLineChanged' = (tabularSchemaDiff(sdOld, sdNew).old
                            # tabularSchemaDiff(sdOld, sdNew).new)
    /\ sdPc' = "done"
    /\ UNCHANGED <<sdOld, sdNew>>

SdNext ==
    \/ TabularSchemaDiff

(***************************************************************************)
(* The specifications                                                      *)
(***************************************************************************)
InitSummary == SumInit /\ RootsIdle /\ PipeIdle /\ AdIdle /\ ArgsIdle /\ RowIdle /\ SchIdle /\ SdIdle
SpecSummary == InitSummary /\ [][SumNext]_vars
\* the goroutine and the loop of diffSummary are both scheduled in the end
SpecSummaryFair == InitSummary /\ [][SumNext]_vars /\ WF_vars(SumNext)

InitRoots == RootsInit /\ SumIdle /\ PipeIdle /\ AdIdle /\ ArgsIdle /\ RowIdle /\ SchIdle /\ SdIdle
SpecRoots == InitRoots /\ [][RootsNext]_vars

\* every worker of the pipeline is a goroutine of its own: one that can
\* take a step does so eventually
InitPipe == PipeInit /\ SumIdle /\ RootsIdle /\ AdIdle /\ ArgsIdle /\ RowIdle /\ SchIdle /\ SdIdle
SpecPipe == InitPipe /\ [][PipeNext]_vars /\ WF_vars(PipeNext)

InitDiffer == AdInit /\ SumIdle /\ RootsIdle /\ PipeIdle /\ ArgsIdle /\ RowIdle /\ SchIdle /\ SdIdle
SpecDiffer == InitDiffer /\ [][AdNext]_vars

InitArgs == ArgsInit /\ SumIdle /\ RootsIdle /\ PipeIdle /\ AdIdle /\ RowIdle /\ SchIdle /\ SdIdle
SpecArgs == InitArgs /\ [][ArgsNext]_vars

InitRowEq == RowEqInit /\ SumIdle /\ RootsIdle /\ PipeIdle /\ AdIdle /\ ArgsIdle /\ SchIdle /\ SdIdle
SpecRowEq == InitRowEq /\ [][RowEqNext]_vars

InitRowValid == RowValidInit /\ SumIdle /\ RootsIdle /\ PipeIdle /\ AdIdle /\ ArgsIdle /\ SchIdle /\ SdIdle
SpecRowValid == InitRowValid /\ [][RowValidNext]_vars

InitSch == SchInit /\ SumIdle /\ RootsIdle /\ PipeIdle /\ AdIdle /\ ArgsIdle /\ RowIdle /\ SdIdle
SpecSch == InitSch /\ [][SchNext]_vars

InitSd == SdInit /\ SumIdle /\ RootsIdle /\ PipeIdle /\ AdIdle /\ ArgsIdle /\ RowIdle /\ SchIdle
SpecSd == InitSd /\ [][SdNext]_vars

(***************************************************************************)
(* C1: when diff.Summary finishes without error, the accumulator equals,   *)
(* field by field, the sum of every report that was sent on the channel:   *)
(* each report is added exactly once and none is skipped.                  *)
(***************************************************************************)
C1_AccEqualsSent ==
    (sumPc \in {"ret", "set", "closed"} /\ ~sumErr /\ conPc \in {"recv", "after", "done"})
        => /\ acc.Adds = SeqSum(sentLog, "Adds")
           /\ acc.Removes = SeqSum(sentLog, "Removes")
           /\ acc.Changes = SeqSum(sentLog, "Changes")
           /\ acc.CellChanges = SeqSum(sentLog, "CellChanges")
           /\ acc.OldSize = SeqSum(sentLog, "OldSize")
           /\ acc.NewSize = SeqSum(sentLog, "NewSize")
           /\ count = Len(sentLog)

C1_Witness ==
    /\ conPc = "done" /\ sumPc = "closed" /\ ~sumErr
    /\ Len(sentLog) = 2
    /\ acc.Removes = 1 /\ acc.Changes = 1

(***************************************************************************)
(* C2: diffRoots stops at the first fatal error and drops none: if the     *)
(* summary, the schema diff or the data diff of a table returns an error,  *)
(* no later phase runs for that table or a later table, and diffRoots      *)
(* returns that error.                                                     *)
(***************************************************************************)
C2_FirstErrorReturned ==
    /\ \A i \in 1..(Len(rLog) - 1) : ~rLog[i].err
    /\ (rPc = "done" /\ rLog # <<>> /\ rLog[Len(rLog)].err)
           => rRet = ErrOf(rLog[Len(rLog)].tbl, rLog[Len(rLog)].phase)

RECURSIVE ExpectedDiff(_, _, _)
\* the events for the keys k..MaxKey, by membership of each key
ExpectedDiff(f, t, k) ==
    IF k > MaxKey THEN <<>>
    ELSE (IF k \in DOMAIN f /\ k \notin DOMAIN t THEN <<Removed(k, f[k])>>
          ELSE IF k \notin DOMAIN f /\ k \in DOMAIN t THEN <<Added(k, t[k])>>
          ELSE IF k \in DOMAIN f /\ k \in DOMAIN t /\ f[k] # t[k]
               THEN <<Modified(k, f[k], t[k])>>
          ELSE <<>>)
         \o ExpectedDiff(f, t, k + 1)

IsPrefix(s, r) == Len(s) <= Len(r) /\ SubSeq(r, 1, Len(s)) = s

C4_DifferDeliversDiff ==
    /\ IsPrefix(recvLog, ExpectedDiff(fromRows, toRows, 1))
    /\ \A a, b \in 1..Len(recvLog) : a < b => recvLog[a].key < recvLog[b].key
    /\ srcPc = "end" => recvLog = ExpectedDiff(fromRows, toRows, 1)

C4_Witness ==
    /\ srcPc = "end"
    /\ Len(recvLog) = 2
    /\ recvLog[1].type = "Removed" /\ recvLog[2].type = "Modified"

(***************************************************************************)
(* C5: when a row transform fails, the bad-row callback records the error  *)
(* and returns quit = true, the pipeline stops so that the sink receives   *)
(* no rows beyond those in flight at the point of failure, and diffRows    *)
(* returns a non-nil error.                                                *)
(***************************************************************************)
C5_BadRowStops ==
    inFlightAtFail # -1 =>
        /\ stopped
        /\ badRowVErr
        /\ sinkAfterFail <= inFlightAtFail
        /\ (pPc = "done" => rowsRet = "err")

C5_Witness ==
    /\ pPc = "done" /\ rowsRet = "err" /\ ~waitErr
    /\ inFlightAtFail = 2 /\ sinkAfterFail = 2

(***************************************************************************)
(* C6: every percentage formatSummary derives from the totals (rows        *)
(* unmodified, added, deleted, modified, cells modified) is 0% whenever    *)
(* its denominator is 0, for every accumulator diffSummary passes to it;   *)
(* no division by zero (NaN, Inf) is evaluated.                            *)
(***************************************************************************)
C6_PercentZeroWhenDenominatorZero ==
    fmtOut.called =>
        /\ (fmtOut.oldSize = 0 =>
               /\ IsZeroPercent(fmtOut.unmodified)
               /\ IsZeroPercent(fmtOut.insertions)
               /\ IsZeroPercent(fmtOut.deletions)
               /\ IsZeroPercent(fmtOut.changes))
        /\ (fmtOut.oldSize * fmtOut.colLen = 0 => IsZeroPercent(fmtOut.cellChanges))
        /\ \A x \in {fmtOut.unmodified, fmtOut.insertions, fmtOut.deletions,
                     fmtOut.changes, fmtOut.cellChanges} : ~IsNaN(x) /\ ~IsInf(x)

(***************************************************************************)
(* C7: parseDiffArgs returns the error '--summary cannot be combined with  *)
(* --schema or --data' whenever --summary comes with --schema or --data;   *)
(* otherwise the parts are Summary with --summary, DataOnlyDiff with only  *)
(* --data, SchemaOnlyDiff with only --schema, SchemaAndDataDiff with       *)
(* neither or both.  In every diffArgs returned the Summary bit is never   *)
(* set together with the Schema or the Data bit.                           *)
(***************************************************************************)
C7_SummaryExclusive ==
    argsPc \in {"done", "failed", "diffRoots"} =>
        /\ (apr.summary /\ (apr.schema \/ apr.data)) <=> dArgs.err = "summary_combined"
        /\ dArgs.err = "nil" =>
             /\ apr.summary => dArgs.diffParts = Summary
             /\ (~apr.summary /\ apr.data /\ ~apr.schema) => dArgs.diffParts = DataOnlyDiff
             /\ (~apr.summary /\ apr.schema /\ ~apr.data) => dArgs.diffParts = SchemaOnlyDiff
             /\ (~apr.summary /\ (apr.schema <=> apr.data))
                    => dArgs.diffParts = SchemaAndDataDiff
             /\ ~(/\ HasPart(dArgs.diffParts, Summary)
                  /\ \/ HasPart(dArgs.diffParts, SchemaOnlyDiff)
                     \/ HasPart(dArgs.diffParts, DataOnlyDiff))

C7_Witness ==
    /\ argsPc = "done" /\ dArgs.err = "nil"
    /\ apr.data /\ apr.schema /\ ~apr.summary
    /\ dArgs.diffParts = SchemaAndDataDiff

(***************************************************************************)
(* C8: row.AreEqual(row1, row2, sch) is true iff for every tag of the      *)
(* schema the two rows' values are equal under null-safe equality (absent  *)
(* equals absent, absent differs from present, two present values are      *)
(* equal iff they are the same value); two nil rows are equal and a nil    *)
(* row never equals a non-nil row.  AreEqual is reflexive and symmetric.   *)
(***************************************************************************)
TagValuesAgree(r1, r2, tag) ==
    \/ tag \notin DOMAIN r1.vals /\ tag \notin DOMAIN r2.vals
    \/ /\ tag \in DOMAIN r1.vals /\ tag \in DOMAIN r2.vals
       /\ r1.vals[tag] = r2.vals[tag]

C8_AreEqualNullSafe ==
    rowPc = "areEqualDone" =>
        /\ (rowA.isNil /\ rowB.isNil) => rowRet
        /\ (rowA.isNil # rowB.isNil) => ~rowRet
        /\ (~rowA.isNil /\ ~rowB.isNil) =>
              (rowRet <=> \A tag \in DOMAIN rowSch : TagValuesAgree(rowA, rowB, tag))
        /\ rowRet = AreEqual(rowB, rowA, rowSch)
        /\ AreEqual(rowA, rowA, rowSch)
        /\ AreEqual(rowB, rowB, rowSch)

C8_Witness ==
    /\ rowPc = "areEqualDone" /\ rowRet
    /\ ~rowA.isNil /\ ~rowB.isNil
    /\ rowA # rowB
    /\ \E tag \in DOMAIN rowSch : tag \in DOMAIN rowA.vals

(***************************************************************************)
(* C9 as stated: row.IsValid(r, sch) is true iff every tag present in r    *)
(* has a value that satisfies all constraints of its column in sch; a      *)
(* column whose tag is absent from r does not make the row invalid.        *)
(***************************************************************************)
C9_ValidIffPresentSatisfy ==
    rowPc = "isValidDone" =>
        (rowRet <=> \A tag \in DOMAIN rowSch \cap DOMAIN rowA.vals :
                        \A i \in 1..Len(rowSch[tag]) :
                            SatisfiesConstraint(rowSch[tag][i], rowA.vals[tag]))

(***************************************************************************)
(* C9, amended: row.IsValid(r, sch) is true iff for every column of sch    *)
(* the value r holds for the column's tag, nil when the tag is absent,     *)
(* satisfies every constraint of the column; a column whose tag is absent  *)
(* makes the row invalid exactly when one of its constraints rejects nil.  *)
(***************************************************************************)
C9_ValidIffAllColumnsSatisfy ==
    rowPc = "isValidDone" =>
        /\ rowRet <=> \A tag \in DOMAIN rowSch :
                         \A i \in 1..Len(rowSch[tag]) :
                            SatisfiesConstraint(rowSch[tag][i],
                                IF tag \in DOMAIN rowA.vals THEN rowA.vals[tag] ELSE NilVal)
        /\ (\E tag \in DOMAIN rowSch \ DOMAIN rowA.vals :
                \E i \in 1..Len(rowSch[tag]) :
                    ~SatisfiesConstraint(rowSch[tag][i], NilVal)) => ~rowRet

C9_Witness ==
    /\ rowPc = "isValidDone" /\ ~rowRet
    /\ \E tag \in DOMAIN rowSch \ DOMAIN rowA.vals : Len(rowSch[tag]) > 0
    /\ \A tag \in DOMAIN rowSch \cap DOMAIN rowA.vals :
          \A i \in 1..Len(rowSch[tag]) :
              SatisfiesConstraint(rowSch[tag][i], rowA.vals[tag])

(***************************************************************************)
(* C10: dumbDownSchema(in) returns a schema with exactly the tags of in;   *)
(* the name of each column is the decimal string of its tag and its list   *)
(* of constraints is empty; tag, type and primary-key membership are those *)
(* of the column of in; in and its columns are not modified.               *)
(***************************************************************************)
DigitValue(c) == CHOOSE d \in 0..9 : DecimalDigits[d + 1] = c

RECURSIVE ParseUint(_)
ParseUint(s) ==
    IF Len(s) = 0 THEN 0
    ELSE ParseUint(SubSeq(s, 1, Len(s) - 1)) * 10 + DigitValue(s[Len(s)])

IsDecimalOf(s, n) ==
    /\ Len(s) > 0
    /\ \A i \in 1..Len(s) : \E d \in 0..9 : DecimalDigits[d + 1] = s[i]
    /\ Len(s) > 1 => s[1] # "0"
    /\ ParseUint(s) = n

C10_DumbDownSchema ==
    schPc = "done" =>
        /\ DOMAIN schOut = DOMAIN schAtCall
        /\ \A t \in DOMAIN schOut :
              /\ IsDecimalOf(schOut[t].Name, t)
              /\ schOut[t].Constraints = <<>>
              /\ schOut[t].Tag = t
              /\ schOut[t].Kind = schAtCall[t].Kind
              /\ schOut[t].IsPartOfPK = schAtCall[t].IsPartOfPK
        /\ schIn = schAtCall

C10_Witness ==
    /\ schPc = "done"
    /\ DOMAIN schOut = SchTagPool
    /\ \E t \in DOMAIN schIn :
          /\ Len(schIn[t].Constraints) > 0
          /\ schIn[t].Name = FormatUint(OtherTag(t))
          /\ schOut[t].Name # schIn[t].Name
          /\ Len(schOut[t].Name) = 2

(***************************************************************************)
(* C11: in every pipeline built by buildPipeline the select stage is       *)
(* present iff a where clause or a non-zero limit is configured; it is the *)
(* first stage and split_diffs follows it; in tabular mode the             *)
(* null-printing stage and then the fixed-width stage come last.  Every    *)
(* row that reaches the sink has passed the stages in that order, except   *)
(* the rows injected at the fixed-width stage, which pass that stage only. *)
(***************************************************************************)
C11_StageOrder ==
    stages # <<>> =>
        LET sel == IF dWhere \/ dLimit # 0 THEN 1 ELSE 0
        IN /\ (\E i \in 1..Len(stages) : stages[i] = "select") <=> sel = 1
           /\ sel = 1 => stages[1] = "select"
           /\ stages[sel + 1] = "split_diffs"
           /\ dOutput = TabularDiffOutput =>
                 /\ Len(stages) = sel + 3
                 /\ stages[sel + 2] = NullPrintingStage
                 /\ stages[sel + 3] = fwtStageName
           /\ dOutput = SQLDiffOutput => Len(stages) = sel + 1
           /\ Len(sinkPaths) = Len(sinkLog)
           /\ \A k \in 1..Len(sinkLog) :
                 IF sinkLog[k] \in HeaderKinds
                 THEN sinkPaths[k] = <<fwtStageName>>
                 ELSE /\ sinkPaths[k] = stages
                      /\ \A a, b \in 1..Len(sinkPaths[k]) :
                            (sinkPaths[k][a] = "select" /\ sinkPaths[k][b] = "split_diffs")
                                => a < b

C11_Witness ==
    /\ pPc = "done" /\ rowsRet = "nil"
    /\ dWhere /\ dOutput = TabularDiffOutput
    /\ \E k \in 1..Len(sinkLog) : sinkLog[k] \in HeaderKinds
    /\ \E k \in 1..Len(sinkLog) :
          /\ sinkLog[k] \notin HeaderKinds
          /\ sinkPaths[k] = <<"select", "split_diffs", NullPrintingStage, fwtStageName>>

(***************************************************************************)
(* C12: in tabular output mode diffRoots prints no summary, schema diff or *)
(* data diff for a table that was added or dropped: it prints the header   *)
(* of the table and goes on.  So the panic of diffSchemas, 'cannot perform *)
(* tabular schema diff for added/dropped tables', is never reached from    *)
(* diffRoots, whatever the table deltas and the diff arguments.            *)
(***************************************************************************)
C12_NoPanicForAddedDropped ==
    /\ rPc # "panic"
    /\ rOutput = TabularDiffOutput =>
          \A k \in 1..Len(rLog) :
              (IsAdd(rDeltas[rLog[k].tbl]) \/ IsDrop(rDeltas[rLog[k].tbl]))
                  => rLog[k].phase = "header"
    /\ (rPc \in {"summary", "schema", "data", "check"} /\ rOutput = TabularDiffOutput)
          => rDeltas[rIdx] = "mod"

C12_Witness ==
    /\ rPc = "done" /\ rRet = NoErr
    /\ rOutput = TabularDiffOutput /\ HasPart(rParts, SchemaOnlyDiff)
    /\ Len(rDeltas) = 2 /\ rDeltas[1] = "add" /\ rDeltas[2] = "mod"
    /\ \E k \in 1..Len(rLog) : rLog[k].tbl = 1 /\ rLog[k].phase = "header"
    /\ \E k \in 1..Len(rLog) : rLog[k].tbl = 2 /\ rLog[k].phase = "schema"

(***************************************************************************)
(* C13: getRoots resolves the argument list as documented.  With no        *)
(* arguments from is the HEAD root, to the working root, and there are no  *)
(* tables; if args[0] is not a commit, from is HEAD, to is working and all *)
(* arguments are tables; if args[0] is a commit and the only argument,     *)
(* from is that commit and to is working; if args[0] is a commit and       *)
(* args[1] is not, from is args[0], to is working and args[1:] are tables; *)
(* if both are commits, from is args[0], to is args[1] and args[2:] are    *)
(* tables.  The commits consumed, followed by the leftover tables, are the *)
(* argument list in order.  (Both roots of the environment resolve.)       *)
(***************************************************************************)
CommitsConsumed(rts) ==
    (IF rts.from \in CommitNames THEN <<rts.from>> ELSE <<>>)
    \o (IF rts.to \in CommitNames THEN <<rts.to>> ELSE <<>>)

C18_RootErrorsReturned ==
    (/\ argsPc \in {"done", "failed", "diffRoots"}
     /\ dArgs.err # "summary_combined"
     /\ headFails \/ workFails) =>
        /\ roots.err
        /\ roots.from = NilRoot /\ roots.to = NilRoot /\ roots.leftover = <<>>

(***************************************************************************)
(* C14: for every pair of maps the totals accumulated from the reports     *)
(* satisfy changes + removes <= oldSize, so rowsUnmodified = OldSize -     *)
(* Changes - Removes, as formatSummary computes it, never underflows; it   *)
(* is the number of keys present in both maps with equal values, and it    *)
(* equals NewSize - Changes - Adds (oldSize + adds - removes = newSize).   *)
(***************************************************************************)
UnchangedKeys(f, t) == {k \in DOMAIN f \cap DOMAIN t : f[k] = t[k]}

C14_RowsUnmodifiedNoUnderflow ==
    /\ acc.Changes + acc.Removes <= acc.OldSize
    /\ acc.OldSize + acc.Adds - acc.Removes = acc.NewSize
    /\ fmtOut.called =>
          /\ fmtOut.rowsUnmodified >= 0
          /\ fmtOut.rowsUnmodified = Cardinality(UnchangedKeys(from, to))
          /\ fmtOut.rowsUnmodified = acc.NewSize - acc.Changes - acc.Adds
          /\ acc.OldSize = Cardinality(DOMAIN from)
          /\ acc.NewSize = Cardinality(DOMAIN to)

C14_Witness ==
    /\ conPc = "done" /\ fmtOut.called
    /\ acc.Removes = 1 /\ acc.Adds = 0
    /\ fmtOut.rowsUnmodified = 1

(***************************************************************************)
(* C16: in every interleaving of the producer goroutine and the consumer   *)
(* loop of diffSummary, once diff.Summary returns the channel is closed    *)
(* exactly once, the producer is never left blocked on a send, and         *)
(* diffSummary returns; it returns a non-nil error iff diff.Summary        *)
(* returned an error, and then formatSummary is not called.                *)
(***************************************************************************)
C16_SummaryTerminates ==
    /\ [](closeCount <= 1)
    /\ [](sumPc = "closed" => (chClosed /\ closeCount = 1))
    /\ [](conPc \in {"after", "done"} => sumPc \in {"set", "closed"})
    /\ [](conPc = "done" => /\ (sumRet = "err") <=> sumErr
                            /\ (sumRet = "nil") <=> ~sumErr
                            /\ sumErr => ~fmtOut.called)
    /\ (sumPc = "ret") ~> (sumPc = "closed" /\ closeCount = 1)
    /\ <>(conPc = "done" /\ sumPc = "closed" /\ sumRet # "none")

C16_Witness ==
    /\ conPc = "done" /\ sumPc = "closed" /\ closeCount = 1
    /\ sumErr /\ sumRet = "err" /\ ~fmtOut.called
    /\ count = 1 /\ Len(sentLog) = 2

(***************************************************************************)
(* C15: in tabular mode diffRows injects the header rows at the            *)
(* fixed-width stage before Start() is called, as many as the              *)
(* numHeaderRows given to the sink: one untagged row when the old and new  *)
(* tag->name maps are equal, otherwise the old-names row tagged            *)
(* DiffModifiedOld and then the new-names row tagged DiffModifiedNew.      *)
(* They reach the sink in that order and ahead of every data row.  In SQL  *)
(* mode no row is injected.                                                *)
(***************************************************************************)
ExpectedHeaders ==
    IF dOutput = SQLDiffOutput THEN <<>>
    ELSE IF schemasEqual THEN <<"hdr">>
    ELSE <<"hdr_old", "hdr_new">>

C15_HeadersFirstInOrder ==
    \* nothing moves before Start()
    /\ pPc \in {"build", "inject", "start"} => sinkLog = <<>>
    \* at Start() the injection is complete, at the fixed-width stage only
    /\ pPc = "start" =>
          /\ \A i \in 1..Len(injected) :
                injected[i] = IF stages[i] = fwtStageName THEN ExpectedHeaders ELSE <<>>
          /\ dOutput = TabularDiffOutput => Len(ExpectedHeaders) = numHeaderRows
          /\ dOutput = TabularDiffOutput =>
                Len(injected[StageIndex(stages, fwtStageName)]) = numHeaderRows
    \* at the sink: the headers in order, ahead of every data row
    /\ \A k \in 1..Len(sinkLog) :
          IF k <= Len(ExpectedHeaders)
          THEN sinkLog[k] = ExpectedHeaders[k]
          ELSE sinkLog[k] \notin HeaderKinds
    \* a run that ends well has delivered them all
    /\ (pPc = "done" /\ rowsRet = "nil") => Len(sinkLog) >= Len(ExpectedHeaders)

C15_Witness ==
    /\ pPc = "done" /\ rowsRet = "nil"
    /\ dOutput = TabularDiffOutput /\ ~schemasEqual /\ numHeaderRows = 2
    /\ Len(sinkLog) = 3
    /\ sinkLog[1] = "hdr_old" /\ sinkLog[2] = "hdr_new"
    /\ sinkLog[3] \notin HeaderKinds

(***************************************************************************)
(* C17: for every pair of schemas and their schema differences, the old    *)
(* primary-key list tabularSchemaDiff builds holds exactly the primary-key *)
(* columns of the old schema, and the new list exactly those of the new    *)
(* schema, in union tag order; also a column classified Modified that is   *)
(* part of the primary key in both schemas.                                *)
(***************************************************************************)
RECURSIVE PkNamesOf(_, _, _)
PkNamesOf(sch, tags, i) ==
    IF i > Len(tags) THEN <<>>
    ELSE (IF tags[i] \in DOMAIN sch /\ sch[tags[i]].IsPartOfPK
          THEN <<sch[tags[i]].Name>> ELSE <<>>)
         \o PkNamesOf(sch, tags, i + 1)

NamesOf(pks) == [k \in 1..Len(pks) |-> pks[k].name]

C17_PkListsComplete ==
    sdPc = "done" =>
        /\ NamesOf(oldPks) = PkNamesOf(sdOld, unionTagsOf(sdOld, sdNew), 1)
        /\ NamesOf(newPks) = PkNamesOf(sdNew, unionTagsOf(sdOld, sdNew), 1)

=============================================================================
